---- MODULE Spec2Model ----
(***************************************************************************)
(* Model of src/generate_campaign.js: the PNG encoder (makeCRCTable,       *)
(* crc32, chunk, makePNG), the value-noise primitives (lerp, hash, noise,  *)
(* fbm), the pixel functions of the tiles and fog canvases, and the script *)
(* that generates the eleven images and writes the campaign file.          *)
(*                                                                         *)
(* Specifications.                                                         *)
(*  - Spec: single calls of every operation, one at a time.                *)
(*  - SpecRepeat: crc32, chunk and makePNG calls with one makePNG value    *)
(*    kept by the caller.                                                  *)
(*  - SpecPair: two makePNG calls with their steps interleaved.            *)
(*  - SpecScript: the script's generation sequence and file write.         *)
(*                                                                         *)
(* Number representations.                                                 *)
(*  - A byte is a number in 0..255; a Buffer is a sequence of bytes.        *)
(*  - An unsigned 32-bit word (the result of >>> in the source) is a pair   *)
(*    <<hi, lo>> of 16-bit halves, value hi * 65536 + lo, because the       *)
(*    model checker's integers are narrower than 2^32.                      *)
(*  - A number in the noise code is a triple <<hi, lo, d>> that stands for  *)
(*    (hi * 65536 + lo) / (d * 4294967295): hash divides a 32-bit word by   *)
(*    0xFFFFFFFF, and lerp only forms linear combinations of such values.   *)
(*  - The checksum table is module state: see CRC below.  builds counts    *)
(*    the runs of makeCRCTable; arg is the caller's buffer that the        *)
(*    running crc32 or chunk call was given, as the call leaves it.        *)
(***************************************************************************)
EXTENDS Integers, Sequences, FiniteSets, TLC

VARIABLES crcWrites, call, ret, pc, raw, off, x, y, calls, nalloc, compressed, png,
          builds, arg, kept, peer, script

vars == <<crcWrites, call, ret, pc, raw, off, x, y, calls, nalloc, compressed, png,
          builds, arg, kept, peer, script>>

---------------------------------------------------------------------------
(* Bounds of the model *)

\* largest width and height passed to makePNG
MaxDim == 2
\* longest buffer passed directly to crc32 and chunk
MaxLen == 2
\* largest lattice coordinate passed to hash and noise
MaxCoord == 1
\* noise coordinates are multiples of 1 / SubDiv
SubDiv == 2
\* largest octave count passed to fbm
MaxOct == 2
\* side of a terrain tile (400 in the script) and of a fog canvas (1200)
TileDim == 1
FogDim == 2
\* largest width and height of the makePNG calls that run interleaved
PeerDim == 1

---------------------------------------------------------------------------
(* 32-bit unsigned arithmetic on <<hi, lo>> words *)

\* 2^16
Half == 256 * 256

RECURSIVE Pow2(_)
Pow2(k) == IF k = 0 THEN 1 ELSE 2 * Pow2(k - 1)

\* a ^ b on 4-bit values, bit by bit
Bit(a, k) == (a \div k) % 2

XorBit(p, q) == (p + q) % 2

XorNibble == [a \in 0..15 |-> [b \in 0..15 |->
                 XorBit(Bit(a, 1), Bit(b, 1))
               + 2 * XorBit(Bit(a, 2), Bit(b, 2))
               + 4 * XorBit(Bit(a, 4), Bit(b, 4))
               + 8 * XorBit(Bit(a, 8), Bit(b, 8))]]

Xor8(a, b) == 16 * XorNibble[a \div 16][b \div 16] + XorNibble[(a % 16)][(b % 16)]

Xor16(a, b) == 256 * Xor8(a \div 256, b \div 256) + Xor8((a % 256), (b % 256))

\* u ^ v, read as unsigned
XorW(u, v) == <<Xor16(u[1], v[1]), Xor16(u[2], v[2])>>

\* u >>> k for 1 <= k <= 15
ShrW(u, k) == <<u[1] \div Pow2(k),
                (u[2] \div Pow2(k)) + (u[1] % Pow2(k)) * Pow2(16 - k)>>

\* ToUint32 of an integer n with |n| < 2^31
ToU32(n) == <<(n \div Half) % Half, n % Half>>

\* the four bytes of a word, most significant first
BytesOfW(u) == <<u[1] \div 256, u[1] % 256, u[2] \div 256, u[2] % 256>>

\* (u + v) mod 2^32
AddW(u, v) == <<(u[1] + v[1] + ((u[2] + v[2]) \div Half)) % Half, (u[2] + v[2]) % Half>>

\* (u * v) mod 2^32, by schoolbook multiplication of byte limbs
MulW(u, v) ==
  LET a == <<u[2] % 256, u[2] \div 256, u[1] % 256, u[1] \div 256>>
      b == <<v[2] % 256, v[2] \div 256, v[1] % 256, v[1] \div 256>>
      c0 == a[1] * b[1]
      c1 == a[1] * b[2] + a[2] * b[1] + (c0 \div 256)
      c2 == a[1] * b[3] + a[2] * b[2] + a[3] * b[1] + (c1 \div 256)
      c3 == a[1] * b[4] + a[2] * b[3] + a[3] * b[2] + a[4] * b[1] + (c2 \div 256)
  IN  <<(c3 % 256) * 256 + (c2 % 256), (c1 % 256) * 256 + (c0 % 256)>>

AllOnes == <<65535, 65535>>

---------------------------------------------------------------------------
(* Checksum table and crc32 *)

\* 0xEDB88320
Poly == <<60856, 33568>>

\* one pass of the inner loop: c = (c & 1) ? (0xEDB88320 ^ (c >>> 1)) : (c >>> 1)
CrcShift(c) == IF c[2] % 2 = 1 THEN XorW(Poly, ShrW(c, 1)) ELSE ShrW(c, 1)

RECURSIVE CrcShiftN(_, _)
CrcShiftN(c, k) == IF k = 0 THEN c ELSE CrcShiftN(CrcShift(c), k - 1)

\* variant: one shift too few per table entry
TableEntry_SevenShifts(i) == CrcShiftN(<<0, i>>, 7)

TableEntry(i) == CrcShiftN(<<0, i>>, 8)

makeCRCTable == [i \in 0..255 |-> TableEntry(i)]

\* const CRC = makeCRCTable().  The state holds the table as the entries
\* stored into it since it was built (crcWrites, a function from index to
\* word, empty at the start); CRC is the table those stores leave.
CRC == [i \in 0..255 |->
          IF i \in DOMAIN crcWrites THEN crcWrites[i] ELSE makeCRCTable[i]]

\* c = (c >>> 8) ^ CRC[(c ^ buf[i]) & 0xFF]
CrcUpdate(T, c, byte) == XorW(ShrW(c, 8), T[Xor8(c[2] % 256, byte)])

IsWord(u) == u[1] \in 0..65535 /\ u[2] \in 0..65535

RECURSIVE CrcLoop(_, _, _, _)
CrcLoop(T, c, buf, i) ==
  IF i > Len(buf) THEN c
  ELSE LET next == CrcUpdate(T, c, buf[i])
       IN  IF IsWord(next) THEN CrcLoop(T, next, buf, i + 1) ELSE next

CrcInit == AllOnes

crc32On(T, buf) == XorW(CrcLoop(T, CrcInit, buf, 1), AllOnes)

crc32(buf) == crc32On(CRC, buf)

---------------------------------------------------------------------------
(* Buffers and chunk framing *)

RECURSIVE Zeros(_)
\* Buffer.alloc(n): n zero bytes
Zeros(n) == IF n <= 0 THEN <<>> ELSE <<0>> \o Zeros(n - 1)

\* variant: a store that saturates instead of wrapping
ToUint8_Saturating(v) == IF v < 0 THEN 0 ELSE IF v > 255 THEN 255 ELSE v

\* an element store into a Buffer: the value is reduced by ToUint8, and a
\* store past the end is ignored.  i counts from 0 as in the source.
ToUint8(v) == v % 256

Store(buf, i, v) ==
  IF i >= 0 /\ i < Len(buf) THEN [buf EXCEPT ![i + 1] = ToUint8(v)] ELSE buf

\* Buffer.from(type, 'ascii'): one byte per character, the low 8 bits of its code
AsciiBytes(str) == [i \in 1..Len(str) |-> (str[i] % 256)]

\* writeUInt32BE accepts the integers 0 .. 2^32 - 1 and throws on any other
UInt32Ok(n) == n >= 0

\* variant: the checksum covers the data but not the type
chunk_CrcOverDataOnly(type, data) ==
  BytesOfW(ToU32(Len(data))) \o AsciiBytes(type) \o data \o BytesOfW(crc32(data))

\* lb ++ tb ++ db ++ cb
chunk(type, data) ==
  LET tb == AsciiBytes(type)
      db == data
      lb == BytesOfW(ToU32(Len(db)))
      cb == BytesOfW(crc32(tb \o db))
  IN  lb \o tb \o db \o cb

TypeIHDR == <<73, 72, 68, 82>>
TypeIDAT == <<73, 68, 65, 84>>
TypeIEND == <<73, 69, 78, 68>>

\* 137 80 78 71 13 10 26 10
sig == <<137, 80, 78, 71, 13, 10, 26, 10>>

---------------------------------------------------------------------------
(* zlib.deflateSync(raw, {level: 9}).  zlib is a library outside the       *)
(* repository; it stands here as the simplest encoder of a zlib stream:    *)
(* the 2-byte header for level 9, one final stored block, and the Adler-32 *)
(* of the input.                                                           *)

\* the largest prime below 2^16
AdlerMod == 65536 - 15

RECURSIVE AdlerLoop(_, _, _, _)
AdlerLoop(buf, i, a, b) ==
  IF i > Len(buf) THEN <<b, a>>
  ELSE AdlerLoop(buf, i + 1, (a + buf[i]) % AdlerMod,
                 (b + ((a + buf[i]) % AdlerMod)) % AdlerMod)

adler32(buf) == AdlerLoop(buf, 1, 1, 0)

deflateSync(buf) ==
  LET n == Len(buf)
  IN  <<120, 218>>
      \o <<1, (n % 256), (n \div 256), 255 - (n % 256), 255 - (n \div 256)>>
      \o buf
      \o BytesOfW(adler32(buf))

---------------------------------------------------------------------------
(* Buffer.toString('base64'): a sequence of alphabet indices 0..63, with   *)
(* 64 for the padding character '='.                                       *)

RECURSIVE Base64From(_, _)
Base64From(buf, i) ==
  LET n == Len(buf) - i + 1
  IN  IF n <= 0 THEN <<>>
      ELSE IF n = 1 THEN
        <<buf[i] \div 4, (buf[i] % 4) * 16, 64, 64>>
      ELSE IF n = 2 THEN
        <<buf[i] \div 4, (buf[i] % 4) * 16 + (buf[i + 1] \div 16),
          (buf[i + 1] % 16) * 4, 64>>
      ELSE
        <<buf[i] \div 4, (buf[i] % 4) * 16 + (buf[i + 1] \div 16),
          (buf[i + 1] % 16) * 4 + (buf[i + 2] \div 64), (buf[i + 2] % 64)>>
        \o Base64From(buf, i + 3)

toBase64(buf) == Base64From(buf, 1)

---------------------------------------------------------------------------
(* Noise field: lerp, hash, noise *)

Num(hi, lo, d) == <<hi + (lo \div Half), (lo % Half), d>>

\* equality of the numbers two triples stand for
NumEq(a, b) == Num(a[1] * b[3], a[2] * b[3], 1) = Num(b[1] * a[3], b[2] * a[3], 1)

\* a < 1, that is numerator < 0xFFFFFFFF * d
NumBelowOne(a) ==
  LET one == Num(65535 * a[3], 65535 * a[3], a[3])
  IN  a[1] < one[1] \/ (a[1] = one[1] /\ a[2] < one[2])

NumAtLeastZero(a) == a[1] >= 0

\* variant: the interpolation runs from b to a
lerp_FromB(a, b, t) ==
  Num(b[1] * a[3] * t[2] + (a[1] * b[3] - b[1] * a[3]) * t[1],
      b[2] * a[3] * t[2] + (a[2] * b[3] - b[2] * a[3]) * t[1], a[3] * b[3] * t[2])

\* a + (b - a) * t, with the weight t a fraction <<numerator, denominator>>
lerp(a, b, t) ==
  LET ah == a[1] * b[3]
      al == a[2] * b[3]
      bh == b[1] * a[3]
      bl == b[2] * a[3]
  IN  IF a[3] = b[3]
      THEN Num(a[1] * t[2] + (b[1] - a[1]) * t[1],
               a[2] * t[2] + (b[2] - a[2]) * t[1], a[3] * t[2])
      ELSE Num(ah * t[2] + (bh - ah) * t[1],
               al * t[2] + (bl - al) * t[1], a[3] * b[3] * t[2])

\* 374761393, 668265263, 1234567891, 1540483477
MulX == <<5718, 26545>>
MulY == <<10196, 60207>>
MulSeed == <<18838, 723>>
MulMix == <<23505, 59797>>

\* the 32-bit word that hash divides by 0xFFFFFFFF
hashWord(hx, hy, seed) ==
  LET h0 == AddW(AddW(MulW(ToU32(hx), MulX), MulW(ToU32(hy), MulY)),
                 MulW(ToU32(seed), MulSeed))
      h1 == XorW(h0, ShrW(h0, 13))
      h2 == MulW(h1, MulMix)
  IN  XorW(h2, ShrW(h2, 15))

hash(hx, hy, seed) ==
  LET h == hashWord(hx, hy, seed) IN Num(h[1], h[2], 1)

\* a coordinate is q / SubDiv for an integer q
Floor(q) == q \div SubDiv

Frac(q) == q - Floor(q) * SubDiv

\* xf * xf * (3 - 2 * xf) for xf = f / SubDiv
Smooth(f) == <<f * f * (3 * SubDiv - 2 * f), SubDiv * SubDiv * SubDiv>>

noise(qx, qy, seed) ==
  LET xi == Floor(qx)
      yi == Floor(qy)
      v00 == hash(xi, yi, seed)
      v10 == hash(xi + 1, yi, seed)
      v01 == hash(xi, yi + 1, seed)
      v11 == hash(xi + 1, yi + 1, seed)
      sx == Smooth(Frac(qx))
      sy == Smooth(Frac(qy))
  IN  lerp(lerp(v00, v10, sx), lerp(v01, v11, sx), sy)

\* a * t for a fraction t = <<numerator, denominator>>
NumScale(a, t) == Num(a[1] * t[1], a[2] * t[1], a[3] * t[2])

\* a + b
NumAdd(a, b) ==
  IF b[3] % a[3] = 0
  THEN LET k == b[3] \div a[3] IN Num(a[1] * k + b[1], a[2] * k + b[2], b[3])
  ELSE IF a[3] % b[3] = 0
  THEN LET k == a[3] \div b[3] IN Num(a[1] + b[1] * k, a[2] + b[2] * k, a[3])
  ELSE Num(a[1] * b[3] + b[1] * a[3], a[2] * b[3] + b[2] * a[3], a[3] * b[3])

\* a / t for a fraction t
NumDiv(a, t) ==
  IF a[3] % t[2] = 0
  THEN <<a[1], a[2], (a[3] \div t[2]) * t[1]>>
  ELSE Num(a[1] * t[2], a[2] * t[2], a[3] * t[1])

\* p + q for fractions
FracAdd(p, q) ==
  IF q[2] % p[2] = 0
  THEN <<p[1] * (q[2] \div p[2]) + q[1], q[2]>>
  ELSE <<p[1] * q[2] + q[1] * p[2], p[2] * q[2]>>

RECURSIVE FbmLoop(_, _, _, _, _, _, _, _, _)
\* for (let i = 0; i < octaves; i++) { v += noise(x * freq, y * freq, seed + i) * amp;
\*   max += amp; amp *= 0.5; freq *= 2; }  return v / max;
FbmLoop(qx, qy, seed, octaves, i, v, amp, freq, max) ==
  IF i >= octaves THEN NumDiv(v, max)
  ELSE FbmLoop(qx, qy, seed, octaves, i + 1,
               NumAdd(v, NumScale(noise(qx * freq, qy * freq, seed + i), amp)),
               <<amp[1], amp[2] * 2>>, freq * 2, FracAdd(max, amp))

\* let v = 0, amp = 0.5, freq = 1, max = 0
fbm(qx, qy, seed, octaves) ==
  FbmLoop(qx, qy, seed, octaves, 0, <<0, 0, 1>>, <<1, 2>>, 1, <<0, 1>>)

---------------------------------------------------------------------------
(* Inputs *)

\* getPixel(x, y): the caller's pixel function.  "fog" is makeFogFull's;
\* "grad" returns in-range channels that depend on the coordinate; "wild"
\* returns channels outside 0..255.
PixelFns == {"grad", "fog", "wild"}

\* the pixel functions of the nine terrain tiles, in the script's order
CellFns == <<"cell_0_0", "cell_1_0", "cell_2_0", "cell_0_1", "cell_1_1",
             "cell_2_1", "cell_0_2", "cell_1_2", "cell_2_2">>

CellIndex(fn) == CHOOSE k \in 1..Len(CellFns) : CellFns[k] = fn

IsCellFn(fn) == \E k \in 1..Len(CellFns) : CellFns[k] = fn

Min(a, b) == IF a < b THEN a ELSE b

Max(a, b) == IF a > b THEN a ELSE b

\* variant: only the lower limit is applied
clamp_LowerOnly(v, lo, hi) == Max(lo, v)

\* Math.max(lo, Math.min(hi, v))
clamp(v, lo, hi) == Max(lo, Min(hi, v))

\* return [clamp(r,0,255), clamp(g,0,255), clamp(b,0,255), 255]: the last
\* statement of each of the nine tile functions
cellReturn(r, g, b) == <<clamp(r, 0, 255), clamp(g, 0, 255), clamp(b, 0, 255), 255>>

\* The r, g, b a tile function holds before its return.  Every assignment
\* to them in the source is an integer literal, a clamp or Math.round of a
\* finite value, or +-5 / +10 on such a value, so they are integers; the
\* arithmetic that yields them (fbm, Math.hypot, Math.sin in doubles) is
\* not computed here: it is stood in by values that differ from tile to
\* tile and from pixel to pixel and that fall below, inside and above 0..255.
cellBody(k, px, py) == <<30 * k + px, 260 - 29 * k + py, (-5) + 3 * k * (px + py + 1)>>

\* Math.round of the fraction t[1] / t[2], t[2] > 0
RoundFrac(t) == (2 * t[1] + t[2]) \div (2 * t[2])

\* lerp(a, b, t) on integers a, b and a fraction t, as a fraction
lerpFrac(a, b, t) == <<a * t[2] + (b - a) * t[1], t[2]>>

\* clamp(v, 0, 1) of a fraction
clampUnit(t) == IF t[1] < 0 THEN <<0, t[2]>> ELSE IF t[1] > t[2] THEN <<t[2], t[2]>> ELSE t

\* the pixel function of makeFogCenterRevealed
fogRevealedPixel(px, py) ==
  IF px >= 400 /\ px <= 800 /\ py >= 400 /\ py <= 800
  THEN LET edge == clampUnit(<<Min(Min(px - 400, 800 - px), Min(py - 400, 800 - py)), 40>>)
       IN  <<0, 0, 0, RoundFrac(<<(edge[2] - edge[1]) * 0, edge[2]>>)>>
  ELSE IF px >= 440 /\ px <= 760 /\ py >= 340 /\ py <= 400
  THEN <<0, 0, 0, RoundFrac(lerpFrac(255, 0, <<py - 340, 60>>))>>
  ELSE IF px >= 800 /\ px <= 870 /\ py >= 440 /\ py <= 760
  THEN <<0, 0, 0, RoundFrac(lerpFrac(0, 255, <<px - 800, 70>>))>>
  ELSE <<0, 0, 0, 255>>

getPixel(fn, px, py) ==
  CASE fn = "grad" -> <<10 * px, 10 * py, 0, 255>>
    [] fn = "fog"  -> <<0, 0, 0, 255>>
    [] fn = "wild" -> <<256 + px, (-1) - py, 300, -256>>
    [] fn = "fogRevealed" -> fogRevealedPixel(px, py)
    [] IsCellFn(fn) ->
         LET v == cellBody(CellIndex(fn), px, py) IN cellReturn(v[1], v[2], v[3])

InRangeFns == {"grad", "fog"}

\* values r, g, b may hold before a tile function's return
BodySamples == {-5, 0, 128, 255, 300}

\* coordinates of a fog canvas: its corners and both sides of every limit
\* the fog pixel function compares with
FogSamples == {0, 339, 340, 370, 399, 400, 401, 439, 440, 441, 600, 759, 760, 761,
               799, 800, 801, 835, 870, 871, 1199}

\* a pixel function may throw: fault is the coordinate at which the call's
\* pixel function throws, or <<>> for one that never throws
Faults(w, h) == {<<>>} \cup {<<i, j>> : i \in 0..(w - 1), j \in 0..(h - 1)}

Dims == (-1)..MaxDim

ByteSamples == {0, 1, 128, 255}

RECURSIVE BuffersOfLen(_)
BuffersOfLen(n) ==
  IF n = 0 THEN {<<>>}
  ELSE {<<b>> \o t : b \in ByteSamples, t \in BuffersOfLen(n - 1)}

\* the ASCII bytes of "123456789"
CheckString == <<49, 50, 51, 52, 53, 54, 55, 56, 57>>

Buffers == UNION {BuffersOfLen(n) : n \in 0..MaxLen} \cup {CheckString}

\* "tEXt"
TypeText == <<116, 69, 88, 116>>

Types == {TypeIHDR, TypeIDAT, TypeIEND, TypeText}

LatticeXs == ((-MaxCoord)..MaxCoord) \cup {947}
LatticeYs == ((-MaxCoord)..MaxCoord) \cup {568}
Seeds == {0, 42, 99, 1021}

NoiseXs == ((-(SubDiv * MaxCoord))..(SubDiv * MaxCoord)) \cup {947 * SubDiv}
NoiseYs == ((-(SubDiv * MaxCoord))..(SubDiv * MaxCoord)) \cup {568 * SubDiv}

---------------------------------------------------------------------------
(* State machine.  One top-level call runs at a time; call holds the call  *)
(* and its arguments, ret the value it returned.  The other variables are  *)
(* the locals of a running makePNG.  When a call has returned or thrown,   *)
(* the caller takes the outcome (Discard) and the next call can start.     *)

Quiescent == pc = "idle"

\* the makePNG calls that run with their steps interleaved
Peers == {1, 2}

\* the locals of an interleaved call, when none is running
IdlePeer == [pc |-> "idle", w |-> 0, h |-> 0, fn |-> "fog", raw |-> <<>>, off |-> 0,
             x |-> 0, y |-> 0, compressed |-> <<>>, png |-> <<>>, ret |-> <<>>]

NoFrame ==
  /\ raw' = <<>> /\ off' = 0 /\ x' = 0 /\ y' = 0 /\ calls' = <<>>
  /\ nalloc' = 0 /\ compressed' = <<>> /\ png' = <<>>

Init ==
  /\ crcWrites = <<>>
  /\ call = [op |-> "none"]
  /\ ret = <<>>
  /\ pc = "idle"
  /\ raw = <<>> /\ off = 0 /\ x = 0 /\ y = 0 /\ calls = <<>>
  /\ nalloc = 0 /\ compressed = <<>> /\ png = <<>>
  /\ builds = 1
  /\ arg = <<>>
  /\ kept = <<>>
  /\ peer = [p \in Peers |-> IdlePeer]
  /\ script = [pos |-> 0, state |-> "running", results |-> <<>>, file |-> <<>>]

\* variant: the table is built inside crc32, on every call
Call_crc32_RebuildsTable ==
  \E buf \in Buffers :
    /\ Quiescent
    /\ call' = [op |-> "crc32", buf |-> buf]
    /\ ret' = crc32(buf)
    /\ builds' = builds + 1
    /\ arg' = buf
    /\ pc' = "returned"
    /\ NoFrame
    /\ UNCHANGED <<crcWrites, kept, peer, script>>

\* crc32 reads buf[i] and CRC[...] and stores into neither: arg is the
\* caller's buffer as the call leaves it
Call_crc32 ==
  \E buf \in Buffers :
    /\ Quiescent
    /\ call' = [op |-> "crc32", buf |-> buf]
    /\ ret' = crc32(buf)
    /\ arg' = buf
    /\ pc' = "returned"
    /\ NoFrame
    /\ UNCHANGED <<crcWrites, builds, kept, peer, script>>

\* variant: chunk uses the checksum table as scratch memory
Call_chunk_ScribblesTable ==
  \E type \in Types, data \in Buffers :
    /\ Quiescent
    /\ call' = [op |-> "chunk", type |-> type, data |-> data]
    /\ ret' = chunk(type, data)
    /\ crcWrites' = [i \in 0..255 |-> <<0, Len(data)>>]
    /\ arg' = data
    /\ pc' = "returned"
    /\ NoFrame
    /\ UNCHANGED <<builds, kept, peer, script>>

\* chunk copies data (Buffer.from(data)) and builds a new buffer: arg is
\* the caller's data buffer as the call leaves it
Call_chunk ==
  \E type \in Types, data \in Buffers :
    /\ Quiescent
    /\ call' = [op |-> "chunk", type |-> type, data |-> data]
    /\ ret' = chunk(type, data)
    /\ arg' = data
    /\ pc' = "returned"
    /\ NoFrame
    /\ UNCHANGED <<crcWrites, builds, kept, peer, script>>

Call_hash ==
  \E hx \in LatticeXs, hy \in LatticeYs, seed \in Seeds :
    /\ Quiescent
    /\ call' = [op |-> "hash", x |-> hx, y |-> hy, seed |-> seed]
    /\ ret' = hash(hx, hy, seed)
    /\ pc' = "returned"
    /\ NoFrame
    /\ UNCHANGED <<crcWrites, builds, arg, kept, peer, script>>

Call_noise ==
  \E qx \in NoiseXs, qy \in NoiseYs, seed \in Seeds :
    /\ Quiescent
    /\ call' = [op |-> "noise", x |-> qx, y |-> qy, seed |-> seed]
    /\ ret' = noise(qx, qy, seed)
    /\ pc' = "returned"
    /\ NoFrame
    /\ UNCHANGED <<crcWrites, builds, arg, kept, peer, script>>

Call_fbm ==
  \E qx \in NoiseXs, qy \in NoiseYs, seed \in Seeds, octaves \in 1..MaxOct :
    /\ Quiescent
    /\ call' = [op |-> "fbm", x |-> qx, y |-> qy, seed |-> seed, octaves |-> octaves]
    /\ ret' = fbm(qx, qy, seed, octaves)
    /\ pc' = "returned"
    /\ NoFrame
    /\ UNCHANGED <<crcWrites, builds, arg, kept, peer, script>>

\* one invocation of a tile's pixel function, with the values its body
\* reaches the return statement with
Call_cellPixel ==
  \E k \in 1..Len(CellFns), r \in BodySamples, g \in BodySamples, b \in BodySamples :
    /\ Quiescent
    /\ call' = [op |-> "cellPixel", fn |-> CellFns[k], body |-> <<r, g, b>>]
    /\ ret' = cellReturn(r, g, b)
    /\ pc' = "returned"
    /\ NoFrame
    /\ UNCHANGED <<crcWrites, builds, arg, kept, peer, script>>

\* one invocation of a fog canvas's pixel function
Call_fogPixel ==
  \E fn \in {"fog", "fogRevealed"}, px \in FogSamples, py \in FogSamples :
    /\ Quiescent
    /\ call' = [op |-> "fogPixel", fn |-> fn, x |-> px, y |-> py]
    /\ ret' = getPixel(fn, px, py)
    /\ pc' = "returned"
    /\ NoFrame
    /\ UNCHANGED <<crcWrites, builds, arg, kept, peer, script>>

\* variant: no room for the filter byte of each row
RawSize_NoFilterByte(w, h) == h * (w * 4)

\* const raw = Buffer.alloc(h * (1 + w * 4)): a negative size throws
RawSize(w, h) == h * (1 + w * 4)

Call_makePNG ==
  \E w \in Dims, h \in Dims, fn \in PixelFns :
   \E fault \in Faults(w, h) :
    /\ Quiescent
    /\ RawSize(w, h) >= 0
    /\ call' = [op |-> "makePNG", w |-> w, h |-> h, fn |-> fn, fault |-> fault]
    /\ ret' = <<>>
    /\ raw' = Zeros(RawSize(w, h))
    /\ nalloc' = 1
    /\ off' = 0 /\ x' = 0 /\ y' = 0 /\ calls' = <<>>
    /\ compressed' = <<>> /\ png' = <<>>
    /\ pc' = "row"
    /\ UNCHANGED <<crcWrites, builds, arg, kept, peer, script>>

Call_makePNG_AllocThrows ==
  \E w \in Dims, h \in Dims, fn \in PixelFns :
    /\ Quiescent
    /\ RawSize(w, h) < 0
    /\ call' = [op |-> "makePNG", w |-> w, h |-> h, fn |-> fn, fault |-> <<>>]
    /\ ret' = <<>>
    /\ NoFrame
    /\ pc' = "thrown"
    /\ UNCHANGED <<crcWrites, builds, arg, kept, peer, script>>

\* for (y ...; y < h; ...) { raw[off++] = 0; for (let x = 0; ...
RowStart ==
  /\ pc = "row" /\ y < call.h
  /\ raw' = Store(raw, off, 0)
  /\ off' = off + 1
  /\ x' = 0
  /\ pc' = "pix"
  /\ UNCHANGED <<crcWrites, call, ret, y, calls, nalloc, compressed, png,
               builds, arg, kept, peer, script>>

\* variant: the pixel function is called with its arguments exchanged
PixelStep_Transposed ==
  /\ pc = "pix" /\ x < call.w
  /\ call.fault # <<x, y>>
  /\ LET p == getPixel(call.fn, y, x)
     IN  raw' = Store(Store(Store(Store(raw, off, p[1]), off + 1, p[2]),
                            off + 2, p[3]), off + 3, p[4])
  /\ off' = off + 4
  /\ calls' = Append(calls, <<y, x>>)
  /\ x' = x + 1
  /\ UNCHANGED <<crcWrites, call, ret, pc, y, nalloc, compressed, png,
               builds, arg, kept, peer, script>>

\* const [r, g, b, a] = getPixel(x, y); four stores; x++
PixelStep ==
  /\ pc = "pix" /\ x < call.w
  /\ call.fault # <<x, y>>
  /\ LET p == getPixel(call.fn, x, y)
     IN  raw' = Store(Store(Store(Store(raw, off, p[1]), off + 1, p[2]),
                            off + 2, p[3]), off + 3, p[4])
  /\ off' = off + 4
  /\ calls' = Append(calls, <<x, y>>)
  /\ x' = x + 1
  /\ UNCHANGED <<crcWrites, call, ret, pc, y, nalloc, compressed, png,
               builds, arg, kept, peer, script>>

\* variant: the fault is caught inside the encoder, which returns the
\* signature and the header chunk it can already build
PixelThrows_ReturnsPartial ==
  /\ pc = "pix" /\ x < call.w
  /\ call.fault = <<x, y>>
  /\ png' = sig \o chunk(TypeIHDR, BytesOfW(ToU32(call.w)) \o BytesOfW(ToU32(call.h))
                                     \o <<8, 6, 0, 0, 0>>)
  /\ ret' = toBase64(png')
  /\ pc' = "returned"
  /\ UNCHANGED <<crcWrites, call, raw, off, x, y, calls, nalloc, compressed,
               builds, arg, kept, peer, script>>

\* getPixel(x, y) throws: nothing in makePNG catches it, so the call ends
\* there and the statements after the loops never run
PixelThrows ==
  /\ pc = "pix" /\ x < call.w
  /\ call.fault = <<x, y>>
  /\ pc' = "thrown"
  /\ UNCHANGED <<crcWrites, call, ret, raw, off, x, y, calls, nalloc, compressed, png,
               builds, arg, kept, peer, script>>

\* the inner loop ends: y++
RowEnd ==
  /\ pc = "pix" /\ x >= call.w
  /\ y' = y + 1
  /\ pc' = "row"
  /\ UNCHANGED <<crcWrites, call, ret, raw, off, x, calls, nalloc, compressed, png,
               builds, arg, kept, peer, script>>

\* the outer loop ends: const compressed = zlib.deflateSync(raw, { level: 9 })
Deflate ==
  /\ pc = "row" /\ y >= call.h
  /\ compressed' = deflateSync(raw)
  /\ pc' = "frame"
  /\ UNCHANGED <<crcWrites, call, ret, raw, off, x, y, calls, nalloc, png,
               builds, arg, kept, peer, script>>

\* zlib.deflateSync throws (it can, for example when memory runs out):
\* makePNG does not catch it
DeflateThrows ==
  /\ pc = "row" /\ y >= call.h
  /\ pc' = "thrown"
  /\ UNCHANGED <<crcWrites, call, ret, raw, off, x, y, calls, nalloc, compressed, png,
               builds, arg, kept, peer, script>>

\* variant: height written before width
ihdrBytes_HeightFirst(w, h) ==
  BytesOfW(ToU32(h)) \o BytesOfW(ToU32(w)) \o <<8, 6, 0, 0, 0>>

\* the 13 bytes of ihdr after writeUInt32BE(w, 0), writeUInt32BE(h, 4),
\* ihdr[8] = 8, ihdr[9] = 6
ihdrBytes(w, h) == BytesOfW(ToU32(w)) \o BytesOfW(ToU32(h)) \o <<8, 6, 0, 0, 0>>

\* variant: the data chunk is written before the header chunk
container_DataFirst(w, h, comp) ==
  sig \o chunk(TypeIDAT, comp) \o chunk(TypeIHDR, ihdrBytes(w, h))
      \o chunk(TypeIEND, Zeros(0))

container(w, h, comp) ==
  sig \o chunk(TypeIHDR, ihdrBytes(w, h)) \o chunk(TypeIDAT, comp)
      \o chunk(TypeIEND, Zeros(0))

Frame ==
  /\ pc = "frame"
  /\ UInt32Ok(call.w) /\ UInt32Ok(call.h)
  /\ png' = container(call.w, call.h, compressed)
  /\ ret' = toBase64(png')
  /\ nalloc' = nalloc + 2
  /\ pc' = "returned"
  /\ UNCHANGED <<crcWrites, call, raw, off, x, y, calls, compressed,
               builds, arg, kept, peer, script>>

\* ihdr.writeUInt32BE throws on a negative width or height
FrameThrows ==
  /\ pc = "frame"
  /\ ~(UInt32Ok(call.w) /\ UInt32Ok(call.h))
  /\ nalloc' = nalloc + 1
  /\ pc' = "thrown"
  /\ UNCHANGED <<crcWrites, call, ret, raw, off, x, y, calls, compressed, png,
               builds, arg, kept, peer, script>>

\* the caller has the outcome; the call's locals are dropped
Discard ==
  /\ pc \in {"returned", "thrown"}
  /\ call' = [op |-> "none"]
  /\ ret' = <<>>
  /\ pc' = "idle"
  /\ arg' = <<>>
  /\ NoFrame
  /\ UNCHANGED <<crcWrites, builds, kept, peer, script>>

---------------------------------------------------------------------------
(* The script: nine tile generations and two fog generations, one after    *)
(* another at the top level with no try/catch, then the campaign object    *)
(* and writeFileSync.  script.pos counts the generations that have         *)
(* returned, script.results holds their values in order, script.file is    *)
(* the campaign file (empty until written).  The tiles are TileDim and the *)
(* fog canvases FogDim pixels wide and high.                               *)

Generations ==
  [k \in 1..9 |-> [fn |-> CellFns[k], dim |-> TileDim]]
    \o <<[fn |-> "fog", dim |-> FogDim], [fn |-> "fogRevealed", dim |-> FogDim]>>

\* the grid keys of the campaign object, in the order it lists t00 .. t22
GridKeys == <<"0,0", "1,0", "2,0", "0,1", "1,1", "2,1", "0,2", "1,2", "2,2">>

\* const tNN = cell_N_N(); ... const fogRevealed = makeFogCenterRevealed():
\* the next generation enters makePNG
Script_Generate ==
  /\ script.state = "running" /\ script.pos < Len(Generations)
  /\ Quiescent
  /\ LET gen == Generations[script.pos + 1]
     IN  \E fault \in Faults(gen.dim, gen.dim) :
           /\ call' = [op |-> "makePNG", w |-> gen.dim, h |-> gen.dim,
                        fn |-> gen.fn, fault |-> fault]
           /\ raw' = Zeros(RawSize(gen.dim, gen.dim))
  /\ ret' = <<>>
  /\ nalloc' = 1
  /\ off' = 0 /\ x' = 0 /\ y' = 0 /\ calls' = <<>>
  /\ compressed' = <<>> /\ png' = <<>>
  /\ pc' = "row"
  /\ UNCHANGED <<crcWrites, builds, arg, kept, peer, script>>

\* the generation returned: its value is bound to the script's constant
Script_Take ==
  /\ script.state = "running" /\ pc = "returned"
  /\ script' = [script EXCEPT !.pos = @ + 1, !.results = Append(@, ret)]
  /\ call' = [op |-> "none"]
  /\ ret' = <<>>
  /\ pc' = "idle"
  /\ NoFrame
  /\ UNCHANGED <<crcWrites, builds, arg, kept, peer>>

\* variant: the script catches the fault, leaves the image empty and goes on
Script_Abort_SkipsImage ==
  /\ script.state = "running" /\ pc = "thrown"
  /\ script' = [script EXCEPT !.pos = @ + 1, !.results = Append(@, <<>>)]
  /\ call' = [op |-> "none"]
  /\ ret' = <<>>
  /\ pc' = "idle"
  /\ NoFrame
  /\ UNCHANGED <<crcWrites, builds, arg, kept, peer>>

\* the generation threw: nothing at the top level catches it, the script
\* ends with the uncaught exception and none of its later statements runs
Script_Abort ==
  /\ script.state = "running" /\ pc = "thrown"
  /\ script' = [script EXCEPT !.state = "aborted"]
  /\ UNCHANGED <<crcWrites, call, ret, pc, raw, off, x, y, calls, nalloc, compressed, png,
               builds, arg, kept, peer>>

\* the campaign object as written: its gridCells entries, then the canvases
\* of the fog groups everyone (fogRevealed) and partyA (fogFull)
campaign(results) ==
  [k \in 1..9 |-> <<GridKeys[k], results[k]>>]
    \o <<<<"everyone", results[11]>>, <<"partyA", results[10]>>>>

\* fs.writeFileSync(outPath, JSON.stringify(campaign, null, 2))
Script_Write ==
  /\ script.state = "running" /\ script.pos = Len(Generations)
  /\ Quiescent
  /\ script' = [script EXCEPT !.state = "written", !.file = campaign(script.results)]
  /\ UNCHANGED <<crcWrites, call, ret, pc, raw, off, x, y, calls, nalloc, compressed, png,
               builds, arg, kept, peer>>

NextScript ==
  \/ Script_Generate \/ Script_Take \/ Script_Abort \/ Script_Write
  \/ RowStart \/ PixelStep \/ PixelThrows \/ RowEnd
  \/ Deflate \/ DeflateThrows \/ Frame

SpecScript == Init /\ [][NextScript]_vars

---------------------------------------------------------------------------
(* A caller that keeps the value of one makePNG call (as the script keeps  *)
(* t00) while further crc32, chunk and makePNG calls run.                  *)

\* const t = makePNG(w, h, fn): the first value kept stays in kept
Keep ==
  /\ pc = "returned" /\ call.op = "makePNG"
  /\ kept = <<>>
  /\ kept' = <<[w |-> call.w, h |-> call.h, fn |-> call.fn, out |-> ret]>>
  /\ call' = [op |-> "none"]
  /\ ret' = <<>>
  /\ pc' = "idle"
  /\ NoFrame
  /\ UNCHANGED <<crcWrites, builds, arg, peer, script>>

NextRepeat ==
  \/ Discard \/ Keep
  \/ Call_crc32 \/ Call_chunk
  \/ Call_makePNG \/ Call_makePNG_AllocThrows
  \/ RowStart \/ PixelStep \/ PixelThrows \/ RowEnd
  \/ Deflate \/ DeflateThrows \/ Frame \/ FrameThrows

SpecRepeat == Init /\ [][NextRepeat]_vars

---------------------------------------------------------------------------
(* Interleaved makePNG calls.  peer[p] holds the locals of call p: its     *)
(* arguments, its position, its raw buffer and write offset, the           *)
(* compressor's output, the framed bytes and the returned value.  Each     *)
(* action is one step of one call (the steps of makePNG above); the calls  *)
(* share the checksum table and nothing else.                              *)

Peer_Call(p) ==
  \E w \in 1..PeerDim, h \in 1..PeerDim, fn \in PixelFns :
    /\ peer[p].pc = "idle"
    /\ peer' = [peer EXCEPT ![p] =
         [pc |-> "row", w |-> w, h |-> h, fn |-> fn, raw |-> Zeros(RawSize(w, h)),
          off |-> 0, x |-> 0, y |-> 0, compressed |-> <<>>, png |-> <<>>, ret |-> <<>>]]
    /\ UNCHANGED <<crcWrites, call, ret, pc, raw, off, x, y, calls, nalloc, compressed, png,
                 builds, arg, kept, script>>

Peer_RowStart(p) ==
  /\ peer[p].pc = "row" /\ peer[p].y < peer[p].h
  /\ peer' = [peer EXCEPT ![p].raw = Store(@, peer[p].off, 0),
                          ![p].off = @ + 1, ![p].x = 0, ![p].pc = "pix"]
  /\ UNCHANGED <<crcWrites, call, ret, pc, raw, off, x, y, calls, nalloc, compressed, png,
               builds, arg, kept, script>>

\* variant: the write offset is one variable shared by all calls (that of
\* call 1) instead of a local of each call
Peer_PixelStep_SharedOffset(p) ==
  /\ peer[p].pc = "pix" /\ peer[p].x < peer[p].w
  /\ LET px == getPixel(peer[p].fn, peer[p].x, peer[p].y)
         o == peer[1].off
         written == [peer EXCEPT ![p].raw =
                       Store(Store(Store(Store(@, o, px[1]), o + 1, px[2]),
                                   o + 2, px[3]), o + 3, px[4]),
                     ![p].x = @ + 1]
     IN  peer' = [written EXCEPT ![1].off = @ + 4]
  /\ UNCHANGED <<crcWrites, call, ret, pc, raw, off, x, y, calls, nalloc, compressed, png,
               builds, arg, kept, script>>

Peer_PixelStep(p) ==
  /\ peer[p].pc = "pix" /\ peer[p].x < peer[p].w
  /\ LET px == getPixel(peer[p].fn, peer[p].x, peer[p].y)
         o == peer[p].off
     IN  peer' = [peer EXCEPT ![p].raw =
                    Store(Store(Store(Store(@, o, px[1]), o + 1, px[2]),
                                o + 2, px[3]), o + 3, px[4]),
                  ![p].off = @ + 4, ![p].x = @ + 1]
  /\ UNCHANGED <<crcWrites, call, ret, pc, raw, off, x, y, calls, nalloc, compressed, png,
               builds, arg, kept, script>>

Peer_RowEnd(p) ==
  /\ peer[p].pc = "pix" /\ peer[p].x >= peer[p].w
  /\ peer' = [peer EXCEPT ![p].y = @ + 1, ![p].pc = "row"]
  /\ UNCHANGED <<crcWrites, call, ret, pc, raw, off, x, y, calls, nalloc, compressed, png,
               builds, arg, kept, script>>

Peer_Deflate(p) ==
  /\ peer[p].pc = "row" /\ peer[p].y >= peer[p].h
  /\ peer' = [peer EXCEPT ![p].compressed = deflateSync(peer[p].raw), ![p].pc = "frame"]
  /\ UNCHANGED <<crcWrites, call, ret, pc, raw, off, x, y, calls, nalloc, compressed, png,
               builds, arg, kept, script>>

Peer_Frame(p) ==
  /\ peer[p].pc = "frame"
  /\ LET bytes == container(peer[p].w, peer[p].h, peer[p].compressed)
     IN  peer' = [peer EXCEPT ![p].png = bytes, ![p].ret = toBase64(bytes),
                              ![p].pc = "returned"]
  /\ UNCHANGED <<crcWrites, call, ret, pc, raw, off, x, y, calls, nalloc, compressed, png,
               builds, arg, kept, script>>

\* the caller has the value; the call's locals are dropped
Peer_Return(p) ==
  /\ peer[p].pc = "returned"
  /\ peer' = [peer EXCEPT ![p] = IdlePeer]
  /\ UNCHANGED <<crcWrites, call, ret, pc, raw, off, x, y, calls, nalloc, compressed, png,
               builds, arg, kept, script>>

NextPair ==
  \E p \in Peers :
    \/ Peer_Call(p) \/ Peer_RowStart(p) \/ Peer_PixelStep(p) \/ Peer_RowEnd(p)
    \/ Peer_Deflate(p) \/ Peer_Frame(p) \/ Peer_Return(p)

SpecPair == Init /\ [][NextPair]_vars

Next ==
  \/ Discard
  \/ Call_crc32 \/ Call_chunk \/ Call_hash \/ Call_noise \/ Call_fbm
  \/ Call_cellPixel \/ Call_fogPixel
  \/ Call_makePNG \/ Call_makePNG_AllocThrows
  \/ RowStart \/ PixelStep \/ PixelThrows \/ RowEnd
  \/ Deflate \/ DeflateThrows \/ Frame \/ FrameThrows

Spec == Init /\ [][Next]_vars

---------------------------------------------------------------------------
(* Reading a container back: the chunks found from a position on *)

BadChunk == [ok |-> FALSE, len |-> 0, type |-> <<>>, data |-> <<>>, crc |-> <<>>]

\* the value of a 4-byte big-endian length field below 65536, or -1
LenField(bytes, pos) ==
  IF bytes[pos] = 0 /\ bytes[pos + 1] = 0
  THEN bytes[pos + 2] * 256 + bytes[pos + 3] ELSE -1

RECURSIVE ParseChunks(_, _)
ParseChunks(bytes, pos) ==
  IF pos > Len(bytes) THEN <<>>
  ELSE IF pos + 11 > Len(bytes) THEN <<BadChunk>>
  ELSE LET n == LenField(bytes, pos)
       IN  IF n < 0 \/ pos + 11 + n > Len(bytes) THEN <<BadChunk>>
           ELSE <<[ok |-> TRUE, len |-> n,
                   type |-> SubSeq(bytes, pos + 4, pos + 7),
                   data |-> SubSeq(bytes, pos + 8, pos + 7 + n),
                   crc |-> SubSeq(bytes, pos + 8 + n, pos + 11 + n)]>>
                \o ParseChunks(bytes, pos + 12 + n)

IsMakePNG == call.op = "makePNG"

Returned(op) == call.op = op /\ pc = "returned"

\* the loops of makePNG have finished
LoopsDone == IsMakePNG /\ (pc \in {"frame", "returned"} \/ (pc = "row" /\ y >= call.h))

---------------------------------------------------------------------------
(* C1: chunk(type, data) is 12 + len(data) bytes: the big-endian length of *)
(* data, the 4 type bytes, data unchanged, the big-endian crc32 of         *)
(* type ++ data; and each of the three chunks of an image that makePNG     *)
(* returns has that layout.                                                *)

ChunkLayout(bytes, type, data) ==
  LET n == Len(data)
  IN  /\ Len(bytes) = 12 + n
      /\ bytes[1] = 0 /\ bytes[2] = 0 /\ bytes[3] = n \div 256 /\ bytes[4] = (n % 256)
      /\ \A i \in 1..4 : bytes[4 + i] = type[i]
      /\ \A i \in 1..n : bytes[8 + i] = data[i]
      /\ SubSeq(bytes, 9 + n, 12 + n) = BytesOfW(crc32(type \o data))

C1_ChunkLayout ==
  /\ Returned("chunk") => ChunkLayout(ret, call.type, call.data)
  /\ Returned("makePNG") =>
       LET cs == ParseChunks(png, 9)
       IN  /\ Len(cs) = 3
           /\ \A k \in 1..3 :
                /\ cs[k].ok
                /\ cs[k].len = Len(cs[k].data)
                /\ cs[k].crc = BytesOfW(crc32(cs[k].type \o cs[k].data))

C1_Witness == Returned("chunk") /\ Len(call.data) = 2 /\ call.type = TypeText

---------------------------------------------------------------------------
(* C2: the bytes makePNG produces are the 8-byte signature, then exactly   *)
(* three chunks IHDR, IDAT, IEND in that order; the IEND data is empty,    *)
(* the IDAT data is the compressor's output for the whole raw buffer, and  *)
(* nothing follows the IEND chunk.                                         *)

C2_Container ==
  Returned("makePNG") =>
    LET cs == ParseChunks(png, 9)
    IN  /\ SubSeq(png, 1, 8) = <<137, 80, 78, 71, 13, 10, 26, 10>>
        /\ Len(cs) = 3
        /\ \A k \in 1..3 : cs[k].ok
        /\ cs[1].type = <<73, 72, 68, 82>>
        /\ cs[2].type = <<73, 68, 65, 84>>
        /\ cs[3].type = <<73, 69, 78, 68>>
        /\ cs[3].data = <<>>
        /\ Len(raw) = call.h * (1 + 4 * call.w)
        /\ cs[2].data = deflateSync(raw)
        /\ Len(png) = 8 + (12 + 13) + (12 + Len(cs[2].data)) + 12

C2_Witness == Returned("makePNG") /\ call.w = 2 /\ call.h = 1 /\ call.fn = "grad"

---------------------------------------------------------------------------
(* C3: whenever makePNG returns, the IHDR data is 13 bytes: the width and  *)
(* the height as 4-byte big-endian integers, then 8, 6, 0, 0, 0.           *)

C3_Header ==
  Returned("makePNG") =>
    LET cs == ParseChunks(png, 9)
    IN  /\ Len(cs) >= 1 /\ cs[1].ok
        /\ cs[1].data = <<0, 0, call.w \div 256, (call.w % 256),
                          0, 0, call.h \div 256, (call.h % 256), 8, 6, 0, 0, 0>>

C3_Witness == Returned("makePNG") /\ call.w = 1 /\ call.h = 2

---------------------------------------------------------------------------
(* C4: for w > 0, h > 0 and a pixel function with channels in 0..255, the  *)
(* raw buffer has length h * (1 + 4w), each row starts with the byte 0,    *)
(* the four bytes of pixel (i, j) are the channels getPixel(i, j) returned *)
(* (for w = h = 2 and the gradient function the buffer is the one written  *)
(* out below), the write offset never passes the end of the buffer and     *)
(* equals its length when the loops have finished.                         *)

Stride(w) == 1 + 4 * w

\* the four bytes of pixel (i, j), read back from a raw buffer of width w
PixelAt(buf, w, i, j) ==
  SubSeq(buf, j * Stride(w) + 1 + 4 * i + 1, j * Stride(w) + 1 + 4 * i + 4)

InRangeCall == IsMakePNG /\ call.w > 0 /\ call.h > 0 /\ call.fn \in InRangeFns

C4_RawLayout ==
  /\ InRangeCall => off <= Len(raw)
  /\ (InRangeCall /\ LoopsDone) =>
       /\ Len(raw) = call.h * (1 + 4 * call.w)
       /\ off = Len(raw)
       /\ \A j \in 0..(call.h - 1) : raw[j * Stride(call.w) + 1] = 0
       /\ \A i \in 0..(call.w - 1), j \in 0..(call.h - 1) :
            PixelAt(raw, call.w, i, j) = getPixel(call.fn, i, j)
  /\ (InRangeCall /\ LoopsDone /\ call.w = 2 /\ call.h = 2 /\ call.fn = "grad") =>
       raw = <<0, 0, 0, 0, 255, 10, 0, 0, 255, 0, 0, 10, 0, 255, 10, 10, 0, 255>>

C4_Witness ==
  InRangeCall /\ pc = "frame" /\ call.w = 2 /\ call.h = 2 /\ call.fn = "grad"

---------------------------------------------------------------------------
(* C6 (as claimed): a makePNG call with width <= 0 or height <= 0 fails    *)
(* at once: it throws, allocates no buffer, never calls the pixel function *)
(* and produces no output bytes.                                           *)

C6_InvalidGeometryFails ==
  (IsMakePNG /\ (call.w <= 0 \/ call.h <= 0)) =>
     /\ pc = "thrown"
     /\ nalloc = 0
     /\ Len(calls) = 0
     /\ png = <<>> /\ ret = <<>>

---------------------------------------------------------------------------
(* C7 (as claimed): each channel byte written for a pixel is the channel   *)
(* value clamped into 0..255.                                              *)
(* C7 (amended): each channel byte written for a pixel is the integer      *)
(* channel value modulo 256 (it wraps, it does not saturate), which is the *)
(* value itself whenever the value lies in 0..255.                         *)

Clamp255(v) == IF v < 0 THEN 0 ELSE IF v > 255 THEN 255 ELSE v

\* the byte stored for channel c of the k-th pixel the call has written
WrittenByte(k, c) ==
  raw[calls[k][2] * Stride(call.w) + 1 + 4 * calls[k][1] + c]

ReturnedChannel(k, c) == getPixel(call.fn, calls[k][1], calls[k][2])[c]

C7_ClampedWrites ==
  IsMakePNG =>
    \A k \in 1..Len(calls), c \in 1..4 :
      WrittenByte(k, c) = Clamp255(ReturnedChannel(k, c))

C7_WrappedWrites ==
  IsMakePNG =>
    \A k \in 1..Len(calls), c \in 1..4 :
      /\ WrittenByte(k, c) \in 0..255
      /\ (ReturnedChannel(k, c) - WrittenByte(k, c)) % 256 = 0
      /\ ReturnedChannel(k, c) \in 0..255
           => WrittenByte(k, c) = ReturnedChannel(k, c)

C7_Witness == Returned("makePNG") /\ call.fn = "wild" /\ Len(calls) = 4

---------------------------------------------------------------------------
(* C8: one makePNG call invokes the pixel function once for each (i, j)    *)
(* with 0 <= i < w and 0 <= j < h, never outside that range, in row-major  *)
(* order, and all w * h invocations come before the compressor runs.       *)

C8_CallOrder ==
  IsMakePNG =>
    /\ \A k \in 1..Len(calls) :
         /\ call.w > 0 /\ call.h > 0
         /\ calls[k][1] \in 0..(call.w - 1)
         /\ calls[k][2] \in 0..(call.h - 1)
         /\ calls[k] = <<(k - 1) % call.w, (k - 1) \div call.w>>
    /\ pc \in {"row", "pix"} => compressed = <<>>
    /\ (compressed # <<>> /\ call.w > 0 /\ call.h > 0) =>
         Len(calls) = call.w * call.h
    /\ (compressed # <<>> /\ (call.w <= 0 \/ call.h <= 0)) => Len(calls) = 0

C8_Witness ==
  IsMakePNG /\ pc = "frame" /\ call.w = 2 /\ call.h = 2 /\ Len(calls) = 4

---------------------------------------------------------------------------
(* C5: for every byte sequence the table-driven crc32 returns the value of *)
(* the bit-by-bit reflected CRC-32 (polynomial 0xEDB88320, register        *)
(* 0xFFFFFFFF at the start, complemented at the end); crc32 of the empty   *)
(* sequence is 0 and crc32 of "123456789" is 0xCBF43926.                   *)

RefShift(c) ==
  IF c[2] % 2 = 1 THEN XorW(<<60856, 33568>>, ShrW(c, 1)) ELSE ShrW(c, 1)

RECURSIVE RefBits(_, _)
RefBits(c, k) ==
  IF k = 0 THEN c
  ELSE LET d == RefShift(c) IN IF IsWord(d) THEN RefBits(d, k - 1) ELSE d

RECURSIVE RefCrc(_, _)
\* the register after the first n bytes
RefCrc(bytes, n) ==
  IF n = 0 THEN <<65535, 65535>>
  ELSE LET c == RefCrc(bytes, n - 1)
       IN  RefBits(<<c[1], Xor16(c[2], bytes[n])>>, 8)

RefCrc32(bytes) == XorW(RefCrc(bytes, Len(bytes)), <<65535, 65535>>)

C5_Crc32IsIeee ==
  Returned("crc32") =>
    /\ ret = RefCrc32(call.buf)
    /\ call.buf = <<>> => ret = <<0, 0>>
    /\ call.buf = CheckString => ret = <<52212, 14630>>

C5_Witness == Returned("crc32") /\ call.buf = CheckString

---------------------------------------------------------------------------
(* C9 (as claimed): hash(x, y, seed) returns a value v with 0 <= v < 1,    *)
(* never the value 1, and the same triple always gives the same value.     *)

---------------------------------------------------------------------------
(* C10: at integer coordinates noise(x, y, seed) equals hash(x, y, seed):  *)
(* the fractional offsets and the smoothstep weights are 0, and the value  *)
(* of the three neighbouring lattice points does not enter the result.     *)

AtLattice == Frac(call.x) = 0 /\ Frac(call.y) = 0

C10_LatticeCollapse ==
  (Returned("noise") /\ AtLattice) =>
    LET xi == Floor(call.x)
        yi == Floor(call.y)
        v00 == hash(xi, yi, call.seed)
        s0 == Smooth(Frac(call.x))
    IN  /\ NumEq(ret, v00)
        /\ s0[1] = 0 /\ Smooth(Frac(call.y))[1] = 0
        /\ \A other \in {hash(0, 0, 0), hash(947, 568, 1021)} :
             NumEq(lerp(lerp(v00, other, s0), lerp(other, other, s0), s0), v00)

C10_Witness ==
  /\ Returned("noise") /\ AtLattice
  /\ call.x = SubDiv /\ call.y = -SubDiv /\ call.seed = 42
  /\ ~NumEq(hash(1, -1, 42), hash(2, -1, 42))

---------------------------------------------------------------------------
(* C11 (as claimed): for every coordinate, seed and octave count >= 1,     *)
(* fbm(x, y, seed, octaves) is a value v with 0 <= v < 1, and it is the    *)
(* sum over i < octaves of noise(x * 2^i, y * 2^i, seed + i) weighted by   *)
(* 0.5^(i+1), divided by the sum of those weights.                         *)

RECURSIVE WeightedNoise(_, _, _, _, _)
\* sum over i..n-1 of noise(x * 2^i, y * 2^i, seed + i) * 2^(n-1-i), as a
\* pair <<high part, low part>> of the numerator over the noise denominator
WeightedNoise(qx, qy, seed, n, i) ==
  IF i >= n THEN <<0, 0>>
  ELSE LET s == noise(qx * Pow2(i), qy * Pow2(i), seed + i)
           r == WeightedNoise(qx, qy, seed, n, i + 1)
       IN  <<s[1] * Pow2(n - 1 - i) + r[1], s[2] * Pow2(n - 1 - i) + r[2]>>

\* the denominator every noise value has: the two smoothstep weights
NoiseDen == (SubDiv * SubDiv * SubDiv) * (SubDiv * SubDiv * SubDiv)

---------------------------------------------------------------------------
(* C12: a makePNG call returns one complete container (the signature and   *)
(* the three chunks, each well formed) or returns nothing: until the call  *)
(* returns no chunk has been framed and no output byte exists, and when    *)
(* the pixel function throws at any coordinate, or the compressor throws,  *)
(* it stays so; a call whose pixel function throws never returns.          *)

C12_AllOrNothing ==
  IsMakePNG =>
    /\ pc # "returned" => (png = <<>> /\ ret = <<>>)
    /\ (pc = "returned" \/ compressed # <<>>) =>
         ~(\E k \in 1..Len(calls) : call.fault = calls[k])
    /\ pc = "returned" =>
         LET cs == ParseChunks(png, 9)
         IN  /\ call.fault = <<>>
             /\ ret = toBase64(png)
             /\ SubSeq(png, 1, 8) = <<137, 80, 78, 71, 13, 10, 26, 10>>
             /\ Len(cs) = 3
             /\ \A k \in 1..3 :
                  /\ cs[k].ok
                  /\ cs[k].crc = BytesOfW(crc32(cs[k].type \o cs[k].data))
             /\ <<cs[1].type, cs[2].type, cs[3].type>> = <<TypeIHDR, TypeIDAT, TypeIEND>>
             /\ Len(ret) = 4 * ((Len(png) + 2) \div 3)

\* the pixel function threw after a pixel had been written
C12_Witness ==
  /\ IsMakePNG /\ pc = "thrown" /\ call.fn = "wild"
  /\ call.fault = <<1, 0>> /\ Len(calls) = 1 /\ raw # Zeros(Len(raw))

---------------------------------------------------------------------------
(* The bytes a makePNG call returns when it runs alone and nothing throws, *)
(* written out from the layout of C2, C3 and C4 rather than by running the *)
(* step machine.                                                           *)

RECURSIVE RefRow(_, _, _, _)
\* the pixels i .. w-1 of row j
RefRow(fn, w, j, i) ==
  IF i >= w THEN <<>>
  ELSE LET p == getPixel(fn, i, j)
       IN  <<p[1] % 256, p[2] % 256, p[3] % 256, p[4] % 256>> \o RefRow(fn, w, j, i + 1)

RECURSIVE RefRaw(_, _, _, _)
\* the rows j .. h-1
RefRaw(fn, w, h, j) ==
  IF j >= h THEN <<>> ELSE <<0>> \o RefRow(fn, w, j, 0) \o RefRaw(fn, w, h, j + 1)

RefOutput(w, h, fn) == toBase64(container(w, h, deflateSync(RefRaw(fn, w, h, 0))))

\* what generation k of the script yields when nothing throws
RefGeneration(k) ==
  LET fns == <<"cell_0_0", "cell_1_0", "cell_2_0", "cell_0_1", "cell_1_1", "cell_2_1",
               "cell_0_2", "cell_1_2", "cell_2_2", "fog", "fogRevealed">>
  IN  RefOutput(Generations[k].dim, Generations[k].dim, fns[k])

---------------------------------------------------------------------------
(* C13 (as claimed): when the pixel function of one image of the script    *)
(* throws, only that image is lost: once the script has ended, every other *)
(* generation, before and after the faulty one, has run and has yielded    *)
(* the bytes it yields when nothing throws.                                *)

C13_FaultAbortsOneImage ==
  (script.state = "aborted" /\ IsMakePNG /\ call.fault # <<>>) =>
    /\ pc = "thrown" /\ ret = <<>>
    /\ \A k \in 1..11 :
         \/ k = script.pos + 1
         \/ k <= Len(script.results) /\ script.results[k] = RefGeneration(k)

---------------------------------------------------------------------------
(* C18: the generations run in the fixed order (0,0), (1,0), (2,0), (0,1), *)
(* (1,1), (2,1), (0,2), (1,2), (2,2), full fog, revealed fog; the campaign *)
(* file is written only when all eleven have returned, and then it holds   *)
(* the nine grid cells and the two fog canvases they returned; when a      *)
(* generation throws the script stops there: no later generation runs and  *)
(* no file is written.                                                     *)

C18_WrittenAfterAll ==
  /\ Len(script.results) = script.pos /\ script.pos <= 11
  /\ \A k \in 1..script.pos : script.results[k] = RefGeneration(k)
  /\ IsMakePNG =>
       /\ script.state \in {"running", "aborted"} /\ script.pos < 11
       /\ call.fn = <<"cell_0_0", "cell_1_0", "cell_2_0", "cell_0_1", "cell_1_1",
                       "cell_2_1", "cell_0_2", "cell_1_2", "cell_2_2", "fog",
                       "fogRevealed">>[script.pos + 1]
  /\ script.state = "aborted" => (script.file = <<>> /\ script.pos < 11 /\ pc = "thrown")
  /\ script.state = "written" => script.file # <<>>
  /\ script.file # <<>> =>
       /\ script.state = "written" /\ script.pos = 11
       /\ Len(script.file) = 11
       /\ \A k \in 1..9 :
            /\ script.file[k][1] = <<"0,0", "1,0", "2,0", "0,1", "1,1", "2,1",
                                      "0,2", "1,2", "2,2">>[k]
            /\ script.file[k][2] = RefGeneration(k)
       /\ script.file[10] = <<"everyone", RefGeneration(11)>>
       /\ script.file[11] = <<"partyA", RefGeneration(10)>>

C18_Witness == script.state = "written" /\ Len(script.file) = 11

---------------------------------------------------------------------------
(* C14: a makePNG call with the same width, height and pixel function as   *)
(* an earlier call returns the very bytes the earlier call returned,       *)
(* whatever crc32, chunk and makePNG calls ran in between.                 *)

SameAsKept ==
  /\ kept # <<>> /\ Returned("makePNG")
  /\ kept[1].w = call.w /\ kept[1].h = call.h /\ kept[1].fn = call.fn

C14_SameInputsSameBytes == SameAsKept => ret = kept[1].out

C14_Witness == SameAsKept /\ call.w = 2 /\ call.h = 1 /\ call.fn = "wild"

---------------------------------------------------------------------------
(* C15: when makePNG calls run with their steps interleaved in any order,  *)
(* each call's buffer holds, up to its own write offset, the bytes of its  *)
(* own image and zeros after it, the checksum table is never written, and  *)
(* each call returns exactly the bytes it returns when it runs alone.      *)

\* the first n bytes of buf followed by zeros up to length len
PrefixThenZeros(buf, n, len) == [i \in 1..len |-> IF i <= n THEN buf[i] ELSE 0]

C15_InterleavedAsAlone ==
  /\ crcWrites = <<>>
  /\ \A p \in Peers :
       LET f == peer[p]
           alone == RefRaw(f.fn, f.w, f.h, 0)
       IN  /\ f.pc \in {"row", "pix"} =>
                /\ f.off <= Len(alone)
                /\ f.raw = PrefixThenZeros(alone, f.off, Len(alone))
           /\ f.pc \in {"frame", "returned"} => f.raw = alone
           /\ f.pc = "returned" => f.ret = RefOutput(f.w, f.h, f.fn)

\* both calls are in flight with different images, and one of them returns
C15_Witness ==
  /\ peer[1].pc = "returned" /\ peer[1].fn = "wild"
  /\ peer[2].pc = "pix" /\ peer[2].fn = "grad" /\ peer[2].off > 1

---------------------------------------------------------------------------
(* C16: the checksum table is built once, when the module loads and so     *)
(* before any crc32 call, and no crc32, chunk or makePNG call stores into  *)
(* it: it stays the 256 entries makeCRCTable computed; and crc32 and chunk *)
(* leave the buffer they were given as it was, as makePNG leaves the       *)
(* compressed buffer it hands to chunk.                                    *)

C16_TableAndInputsUntouched ==
  /\ builds = 1
  /\ crcWrites = <<>>
  /\ \A i \in {0, 1, 128, 255} : CRC[i] = makeCRCTable[i]
  /\ CRC[1] = <<30471, 12438>> /\ CRC[255] = <<11522, 61325>>
  /\ Returned("crc32") => arg = call.buf
  /\ Returned("chunk") => arg = call.data
  /\ Returned("makePNG") => compressed = deflateSync(raw)

C16_Witness ==
  /\ Returned("chunk") /\ call.data = <<255, 1>> /\ call.type = TypeIDAT
  /\ arg = <<255, 1>> /\ builds = 1

---------------------------------------------------------------------------
(* C17: every pixel function the script passes to makePNG returns four     *)
(* integers in 0..255: a tile function returns its r, g, b limited to      *)
(* 0..255 and alpha 255; a fog function returns r = g = b = 0 and an alpha *)
(* in 0..255, which is 0 wherever 400 <= x <= 800 and 400 <= y <= 800 on   *)
(* the revealed canvas and 255 everywhere on the full one.                 *)

C17_RepoPixelsInRange ==
  /\ Returned("cellPixel") =>
       /\ Len(ret) = 4 /\ \A c \in 1..4 : ret[c] \in 0..255
       /\ ret[4] = 255
       /\ \A c \in 1..3 :
            /\ call.body[c] \in 0..255 => ret[c] = call.body[c]
            /\ call.body[c] < 0 => ret[c] = 0
            /\ call.body[c] > 255 => ret[c] = 255
  /\ Returned("fogPixel") =>
       /\ Len(ret) = 4 /\ \A c \in 1..4 : ret[c] \in 0..255
       /\ ret[1] = 0 /\ ret[2] = 0 /\ ret[3] = 0
       /\ call.fn = "fog" => ret[4] = 255
       /\ (call.fn = "fogRevealed" /\ call.x \in 400..800 /\ call.y \in 400..800)
            => ret[4] = 0

C17_Witness ==
  /\ Returned("cellPixel") /\ call.fn = "cell_1_2"
  /\ call.body = <<300, -5, 128>> /\ ret = <<255, 0, 128, 255>>

====
